---- MODULE Spec2Model ----
(***************************************************************************)
(* ATS relay gateway: the device registry, the heartbeat supervisor, the   *)
(* trigger broadcast, the viewer sets and the identity cache of the three  *)
(* server programs of the repository:                                      *)
(*   "part_000"  src/unnamed/part_000  (devices + web clients, TRY_AGAIN)  *)
(*   "part_002"  src/unnamed/part_002  (devices only, missed-count)        *)
(*   "server"    src/server.js         (authenticate, then upgrade)        *)
(* A state is the state of one running process between two event-loop     *)
(* callbacks; an action is one callback (or one continuation of an async   *)
(* function after an await), run to completion.                            *)
(***************************************************************************)
EXTENDS Integers, Sequences, FiniteSets, TLC

(* ---------------------------- bounds ---------------------------------- *)
MaxDev == 3        \* device connections made during a run, one device name
MaxDevWide == 2    \* device connections made during a run, two device names
MaxView == 1       \* web-client connections made during a run, beside two devices
MaxViewWide == 2   \* web-client connections made during a run, beside one device
MaxLookups == 2    \* get_user_device requests issued per user during a run
MaxSeen == 3       \* saturation of the ghost counter falseCycles

MaxOf(a, b) == IF a >= b THEN a ELSE b
NumDev == MaxOf(MaxDev, MaxDevWide)
DevWS == 1..NumDev
NumView == MaxOf(MaxView, MaxViewWide)
ViewWS == (NumDev + 1)..(NumDev + NumView)
WS == 1..(NumDev + NumView)
NoWS == 0

Variants == {"part_000", "part_002", "server"}

(* Strings of the program are sequences of characters.                     *)
NameA == <<"a">>
NameB == <<"b">>
Names == {NameA, NameB}
Users == {"u1", "u2"}

(* Header values a connection can carry: absent, or a raw string.          *)
NoHeader == [present |-> FALSE, val |-> <<>>]
RawVals == { <<>>, <<" ">>, <<"a">>, <<" ", "a", ",", "b">>, <<",", "a">>, <<"b">> }
HeaderVals == {NoHeader} \cup {[present |-> TRUE, val |-> s] : s \in RawVals}

(* ------------------------ string helpers ------------------------------ *)
Min(S) == CHOOSE x \in S : \A y \in S : x <= y
Max(S) == CHOOSE x \in S : \A y \in S : x >= y

\* s.split(",")[0]
FirstToken(s) ==
  LET commas == {i \in 1..Len(s) : s[i] = ","}
  IN IF commas = {} THEN s ELSE SubSeq(s, 1, Min(commas) - 1)

\* s.trim()
Trim(s) ==
  LET solid == {i \in 1..Len(s) : s[i] # " "}
  IN IF solid = {} THEN <<>> ELSE SubSeq(s, Min(solid), Max(solid))

\* headers[h]?.split(",")[0].trim() ; undefined and "" are both falsy: <<>>
HeaderTokenTrimmed(h) == IF h.present THEN Trim(FirstToken(h.val)) ELSE <<>>

\* req.headers[h], used raw
HeaderTokenRaw(h) == IF h.present THEN h.val ELSE <<>>

HeaderToken(v, h) == IF v = "server" THEN HeaderTokenRaw(h) ELSE HeaderTokenTrimmed(h)

\* a guard that looks at the username only
CredsUserOnly(u, p) == u # <<>>

\* if (!username || !password) return null
CredsPresent(u, p) == u # <<>> /\ p # <<>>

(* ------------------- Map helpers (insertion ordered) ------------------ *)
RegHas(reg, n) == \E i \in 1..Len(reg) : reg[i].name = n
RegIdx(reg, n) == CHOOSE i \in 1..Len(reg) : reg[i].name = n
RegGet(reg, n) == IF RegHas(reg, n) THEN reg[RegIdx(reg, n)].ws ELSE NoWS
RegSet(reg, n, w) ==
  IF RegHas(reg, n) THEN [reg EXCEPT ![RegIdx(reg, n)].ws = w]
  ELSE Append(reg, [name |-> n, ws |-> w])
RegDelete(reg, n) == SelectSeq(reg, LAMBDA e : e.name # n)
RegWS(reg) == {reg[i].ws : i \in 1..Len(reg)}

MapSet(f, k, v) == [x \in (DOMAIN f) \cup {k} |-> IF x = k THEN v ELSE f[x]]
MapDelete(f, k) == [x \in (DOMAIN f) \ {k} |-> f[x]]
EmptyMap == [x \in {} |-> 0]

(* ------------------------------ frames -------------------------------- *)
Directive(t) == [type |-> t, device |-> <<>>, status |-> ""]
DeviceStatus(n, s) == [type |-> "device_status", device |-> n, status |-> s]
AutoTrigger == [type |-> "auto_trigger", device |-> <<>>, status |-> ""]
Attempt(w, f, r) == [to |-> w, frame |-> f, res |-> r]

VARIABLES
  world,                 \* which of the three programs runs, and against what
  crashed,               \* an exception escaped a callback and ended the process
  readyState,            \* ws.readyState of every transport ("NONE": not yet connected)
  pc,                    \* position of each device connection's handler
  username,              \* the username whose authentication is in flight
  deviceName,            \* the deviceName the connection's handlers close over
  isAlive,               \* ws.isAlive: "undef", "true" or "false"
  authenticatedClients,  \* deviceName -> ws (connectedDevices, authenticatedWemos)
  heartbeatState,        \* part_002: deviceName -> missedCount
  closeCode,             \* status a connection was rejected with (0: none)
  authCalls,             \* wemos_auth requests issued for the connection
  out,                   \* the sends the running callback attempted, in order
  falseCycles,           \* ghost: consecutive heartbeat cycles that found the flag false
  closedInAuth,          \* ghost: transports that closed while authenticating
  userWebClients,        \* email -> Set of ws, both in insertion order
  userToWemosCache,      \* email -> deviceName, in insertion order
  lookups,               \* get_user_device requests in flight, per email
  lookupCalls,           \* get_user_device requests issued so far, per email
  lookupFailed,          \* ghost: emails one of whose lookups failed
  authFailed,            \* ghost: connections whose wemos_auth request failed
  missingHeader,         \* ghost: connections without x-username or x-password
  cmdFrom                \* ghost: the email of the command being handled ("": none)

vars == <<world, crashed, readyState, pc, username, deviceName, isAlive,
          authenticatedClients, heartbeatState, closeCode, authCalls, out,
          falseCycles, closedInAuth, userWebClients,
          userToWemosCache, lookups, lookupCalls, lookupFailed, authFailed,
          missingHeader, cmdFrom>>

\* the program that runs: "part_000", "part_002" or "server"
variant == world.variant

devVars == <<pc, username, deviceName, closeCode, authCalls, closedInAuth, authFailed,
            missingHeader>>
webVars == <<userWebClients, userToWemosCache, lookups, lookupCalls, lookupFailed>>

(* ------------------- the state a callback works on -------------------- *)
(* A callback is a function from the record of the mutable state to the   *)
(* record after it; thrown says that an exception is propagating, and     *)
(* every later statement of the callback is skipped.                      *)
Cur ==
  [reg |-> authenticatedClients, rs |-> readyState, alive |-> isAlive,
   hb |-> heartbeatState, out |-> <<>>, thrown |-> FALSE,
   seen |-> falseCycles]

\* ws.send(f): throws for the transports in bad; otherwise the frame is
\* written when the transport is open and discarded when it is not
Send(m, w, f, bad) ==
  IF m.thrown THEN m
  ELSE IF w \in bad
    THEN [m EXCEPT !.out = Append(@, Attempt(w, f, "threw")), !.thrown = TRUE]
  ELSE IF m.rs[w] = "OPEN"
    THEN [m EXCEPT !.out = Append(@, Attempt(w, f, "ok"))]
  ELSE [m EXCEPT !.out = Append(@, Attempt(w, f, "dropped"))]

\* try { ws.send(f); } catch (e) {}
TrySend(m, w, f, bad) == IF m.thrown THEN m ELSE [Send(m, w, f, bad) EXCEPT !.thrown = FALSE]

\* if (ws.readyState === WebSocket.OPEN) ws.send(f)
SendIfOpen(m, w, f, bad) == IF m.thrown \/ m.rs[w] # "OPEN" THEN m ELSE Send(m, w, f, bad)

\* if (ws.readyState === WebSocket.OPEN) { try { ws.send(f); } catch (e) {} }
TrySendIfOpen(m, w, f, bad) == IF m.thrown \/ m.rs[w] # "OPEN" THEN m ELSE TrySend(m, w, f, bad)

\* ws.ping(): throws for the transports in bad (probes are not logged in out)
Ping(m, w, bad) == IF ~m.thrown /\ w \in bad THEN [m EXCEPT !.thrown = TRUE] ELSE m

\* try { ws.ping(); } catch (e) {}
TryPing(m, w, bad) == m

\* ws.terminate(): the socket is destroyed, the close event comes later
Terminate(m, w) ==
  IF m.thrown \/ m.rs[w] # "OPEN" THEN m ELSE [m EXCEPT !.rs[w] = "CLOSING"]

\* ws.close(code): a closing or closed transport is left as it is
CloseWS(rs, w) == IF rs[w] = "OPEN" THEN [rs EXCEPT ![w] = "CLOSING"] ELSE rs

RECURSIVE SendEach(_, _, _, _)
\* clients.forEach(ws => { if (ws.readyState === OPEN) ws.send(f) })
SendEach(m, targets, f, bad) ==
  IF targets = <<>> THEN m
  ELSE SendEach(SendIfOpen(m, Head(targets), f, bad), Tail(targets), f, bad)

RECURSIVE TrySendEach(_, _, _, _)
\* forEach(ws => { if (ws.readyState === OPEN) { try { ws.send(f) } catch (e) {} } })
TrySendEach(m, targets, f, bad) ==
  IF targets = <<>> THEN m
  ELSE TrySendEach(TrySendIfOpen(m, Head(targets), f, bad), Tail(targets), f, bad)

UwcHas(uwc, email) == \E i \in 1..Len(uwc) : uwc[i].email = email
UwcGet(uwc, email) ==
  IF UwcHas(uwc, email)
  THEN uwc[CHOOSE i \in 1..Len(uwc) : uwc[i].email = email].clients
  ELSE <<>>

RECURSIVE ViewersOf(_, _, _)
\* the web clients of the emails the cache maps to the device, in the
\* order notifyWebClientsOfDeviceStatus visits them
ViewersOf(cache, uwc, n) ==
  IF cache = <<>> THEN <<>>
  ELSE (IF Head(cache).device = n THEN UwcGet(uwc, Head(cache).email) ELSE <<>>)
       \o ViewersOf(Tail(cache), uwc, n)

RECURSIVE AllViewers(_)
\* userWebClients.forEach(set => set.forEach(...))
AllViewers(uwc) ==
  IF uwc = <<>> THEN <<>> ELSE Head(uwc).clients \o AllViewers(Tail(uwc))

notifyWebClientsOfDeviceStatus(m, n, status, bad) ==
  SendEach(m, ViewersOf(userToWemosCache, userWebClients, n), DeviceStatus(n, status), bad)

(* ---------------------- device authentication ------------------------- *)
(* What the wemos_auth request can come back with: the request throws, the *)
(* body is not JSON, or it is JSON {success, data: {device_name,           *)
(* hard_switch_enabled}} under an HTTP status that is ok or not.           *)
AuthResponses(names) ==
  [kind : {"throw", "nonjson"}, httpOk : {TRUE}, success : {FALSE},
   device_name : {<<>>}, hard : {FALSE}]
  \cup
  [kind : {"json"}, httpOk : BOOLEAN, success : {FALSE},
   device_name : {<<>>}, hard : {FALSE}]
  \cup
  [kind : {"json"}, httpOk : BOOLEAN, success : {TRUE},
   device_name : {<<>>} \cup names, hard : BOOLEAN]

AuthNull == [ok |-> FALSE, deviceName |-> <<>>, initialCommand |-> "", status |-> 0]

\* a result whose initial command is chosen against the flag
AuthResultFlipped(resp, u) ==
  [ok |-> TRUE,
   deviceName |-> IF resp.device_name # <<>> THEN resp.device_name ELSE u,
   initialCommand |-> IF resp.hard THEN "HARD_OFF" ELSE "HARD_ON",
   status |-> 0]

\* data.data?.device_name || username ; hard_switch_enabled ? "HARD_ON" : "HARD_OFF"
AuthResult(resp, u) ==
  [ok |-> TRUE,
   deviceName |-> IF resp.device_name # <<>> THEN resp.device_name ELSE u,
   initialCommand |-> IF resp.hard THEN "HARD_ON" ELSE "HARD_OFF",
   status |-> 0]

\* an authentication that accepts any JSON body, whatever its success flag
authenticateAnyJson(resp, u) ==
  IF resp.kind = "json" THEN AuthResult(resp, u) ELSE AuthNull

\* authenticateClient (part_000) and authenticateDevice (part_002), after
\* the fetch: null unless the body parses and data.success is truthy
authenticateClient(resp, u) ==
  IF resp.kind = "json" /\ resp.success THEN AuthResult(resp, u) ELSE AuthNull

\* authenticateAndUpgradeWemos (server.js), after the fetch: 500 when the
\* request or resp.json() throws, 401 when !resp.ok or !data.success
authenticateAndUpgradeWemos(resp, u) ==
  IF resp.kind = "throw" THEN [AuthNull EXCEPT !.status = 500]
  ELSE IF ~resp.httpOk THEN [AuthNull EXCEPT !.status = 401]
  ELSE IF resp.kind = "nonjson" THEN [AuthNull EXCEPT !.status = 500]
  ELSE IF ~resp.success THEN [AuthNull EXCEPT !.status = 401]
  ELSE AuthResult(resp, u)

Authenticate(v, resp, u) ==
  IF v = "server" THEN authenticateAndUpgradeWemos(resp, u) ELSE authenticateClient(resp, u)

\* ws.close(1008, "Unauthorized") in part_000 and part_002; the HTTP status
\* written to the socket in server.js
RejectStatus(v, r) == IF v = "server" THEN r.status ELSE 1008

\* the status a connection without credentials is refused with
MissingCredsStatus(v) == IF v = "server" THEN 400 ELSE 1008

(* --------------------------- registration ----------------------------- *)
\* const old = map.get(deviceName);
\* if (old && old.readyState === WebSocket.OPEN) old.terminate();
\* map.set(deviceName, ws);
ReplaceOld(m, n, w) ==
  LET old == RegGet(m.reg, n)
      m1 == IF old # NoWS /\ m.rs[old] = "OPEN" THEN Terminate(m, old) ELSE m
  IN [m1 EXCEPT !.reg = RegSet(@, n, w)]

\* part_000 lines 221-231
RegisterP0(m, w, n, cmd, bad) ==
  LET m1 == TrySend(ReplaceOld(m, n, w), w, Directive(cmd), bad)
      m2 == [m1 EXCEPT !.alive[w] = "true", !.seen[w] = 0]
  IN notifyWebClientsOfDeviceStatus(m2, n, "connected", bad)

\* part_002 lines 93-101
RegisterP2(m, w, n, cmd, bad) ==
  LET m1 == Send(ReplaceOld(m, n, w), w, Directive(cmd), bad)
  IN IF m1.thrown THEN m1
     ELSE [m1 EXCEPT !.alive[w] = "true", !.seen[w] = 0, !.hb = MapSet(@, n, 0)]

\* server.js lines 169-180
RegisterSrv(m, w, n, cmd, bad) ==
  LET m1 == [m EXCEPT !.alive[w] = "true", !.seen[w] = 0]
  IN TrySend(ReplaceOld(m1, n, w), w, Directive(cmd), bad)

Register(v, m, w, n, cmd, bad) ==
  IF v = "part_000" THEN RegisterP0(m, w, n, cmd, bad)
  ELSE IF v = "part_002" THEN RegisterP2(m, w, n, cmd, bad)
  ELSE RegisterSrv(m, w, n, cmd, bad)

(* ---------------------------- close, pong ----------------------------- *)
\* part_000 lines 237-242
OnCloseP0(m, w, n, bad) ==
  LET m1 == [m EXCEPT !.reg = RegDelete(@, n)]
      m2 == TrySend(m1, w, Directive("TRY_AGAIN"), bad)
  IN notifyWebClientsOfDeviceStatus(m2, n, "disconnected", bad)

\* part_002 lines 113-117
OnCloseP2(m, w, n, bad) ==
  [m EXCEPT !.reg = RegDelete(@, n), !.hb = MapDelete(@, n)]

\* server.js lines 194-197
OnCloseSrv(m, w, n, bad) == [m EXCEPT !.reg = RegDelete(@, n)]

OnClose(v, m, w, n, bad) ==
  IF v = "part_000" THEN OnCloseP0(m, w, n, bad)
  ELSE IF v = "part_002" THEN OnCloseP2(m, w, n, bad)
  ELSE OnCloseSrv(m, w, n, bad)

\* a pong handler that resets the missed count and leaves the flag alone
OnPongCountOnly(v, m, w, n) ==
  IF v = "part_002" THEN [m EXCEPT !.hb = MapSet(@, n, 0)] ELSE m

\* part_000 line 244, server.js line 286: ws.isAlive = true
\* part_002 lines 107-111: ws.isAlive = true; heartbeatState.set(deviceName, 0)
OnPong(v, m, w, n) ==
  LET m1 == [m EXCEPT !.alive[w] = "true", !.seen[w] = 0]
  IN IF v = "part_002" THEN [m1 EXCEPT !.hb = MapSet(@, n, 0)] ELSE m1

(* ----------------------------- heartbeat ------------------------------ *)
Bump(k) == IF k < MaxSeen THEN k + 1 ELSE k

\* part_000 lines 304-313, for one entry
HeartbeatEntryP0(m, e, bad) ==
  IF m.thrown THEN m
  ELSE IF m.alive[e.ws] = "false"
    THEN LET m1 == TrySend([m EXCEPT !.seen[e.ws] = Bump(@)], e.ws, Directive("TRY_AGAIN"), bad)
             m2 == notifyWebClientsOfDeviceStatus(m1, e.name, "disconnected", bad)
         IN IF m2.thrown THEN m2
            ELSE Terminate(m2, e.ws)
  ELSE TryPing([m EXCEPT !.alive[e.ws] = "false"], e.ws, bad)

\* heartbeatState.get(deviceName) || 0
Missed(hb, n) == IF n \in DOMAIN hb THEN hb[n] ELSE 0

\* if (missed >= 2)
MissedOut(missed) == missed >= 2

\* part_002 lines 122-139, for one entry
HeartbeatEntryP2(m, e, bad) ==
  IF m.thrown THEN m
  ELSE IF m.alive[e.ws] # "true"
    THEN LET missed == Missed(m.hb, e.name)
             m1 == [m EXCEPT !.seen[e.ws] = Bump(@)]
         IN IF MissedOut(missed)
            THEN [Terminate(m1, e.ws) EXCEPT !.reg = RegDelete(@, e.name),
                                              !.hb = MapDelete(@, e.name)]
            ELSE Ping([m1 EXCEPT !.hb = MapSet(@, e.name, missed + 1)], e.ws, bad)
  ELSE Ping([m EXCEPT !.alive[e.ws] = "false"], e.ws, bad)

\* server.js lines 275-282, for one entry
HeartbeatEntrySrv(m, e, bad) ==
  IF m.thrown THEN m
  ELSE IF m.alive[e.ws] = "false"
    THEN Terminate([m EXCEPT !.seen[e.ws] = Bump(@)], e.ws)
  ELSE TryPing([m EXCEPT !.alive[e.ws] = "false"], e.ws, bad)

HeartbeatEntry(v, m, e, bad) ==
  IF v = "part_000" THEN HeartbeatEntryP0(m, e, bad)
  ELSE IF v = "part_002" THEN HeartbeatEntryP2(m, e, bad)
  ELSE HeartbeatEntrySrv(m, e, bad)

RECURSIVE HeartbeatCycle(_, _, _, _)
\* map.forEach((ws, deviceName) => ...) over the entries at the start
\* of the cycle (an entry is deleted only while it is the current one)
HeartbeatCycle(v, m, entries, bad) ==
  IF entries = <<>> THEN m
  ELSE HeartbeatCycle(v, HeartbeatEntry(v, m, Head(entries), bad), Tail(entries), bad)

(* ------------------------- trigger broadcast -------------------------- *)
PollResponses ==
  [kind : {"throw", "nonjson"}, httpOk : {TRUE}, success : {FALSE}]
  \cup [kind : {"json"}, httpOk : BOOLEAN, success : BOOLEAN]

\* a poll that broadcasts on any JSON body, whatever its success flag
TriggeredAnyJson(v, resp) == resp.kind = "json"

\* whether the poll gets as far as the body of if (data.success === true)
\* (server.js returns on !resp.ok; the others do not look at the status)
Triggered(v, resp) ==
  resp.kind = "json" /\ resp.success /\ (v = "server" => resp.httpOk)

RegTargets(reg) == [i \in 1..Len(reg) |-> reg[i].ws]

\* part_000 lines 181-196
BroadcastP0(m, bad) ==
  LET m1 == TrySendEach(m, RegTargets(m.reg), Directive("AUTO_ON"), bad)
  IN [SendEach(m1, AllViewers(userWebClients), AutoTrigger, bad) EXCEPT !.thrown = FALSE]

\* part_002 lines 69-73, inside the try of line 64
BroadcastP2(m, bad) ==
  [SendEach(m, RegTargets(m.reg), Directive("AUTO_ON"), bad) EXCEPT !.thrown = FALSE]

\* server.js lines 220-224
BroadcastSrv(m, bad) == TrySendEach(m, RegTargets(m.reg), Directive("AUTO_ON"), bad)

Broadcast(v, m, bad) ==
  IF v = "part_000" THEN BroadcastP0(m, bad)
  ELSE IF v = "part_002" THEN BroadcastP2(m, bad)
  ELSE BroadcastSrv(m, bad)

(* ------------------------- viewers and cache -------------------------- *)
\* addWebClientForUser (part_000 lines 135-143)
addWebClientForUser(uwc, email, w) ==
  IF UwcHas(uwc, email)
  THEN LET i == CHOOSE j \in 1..Len(uwc) : uwc[j].email = email
       IN IF \E k \in 1..Len(uwc[i].clients) : uwc[i].clients[k] = w
          THEN uwc
          ELSE [uwc EXCEPT ![i].clients = Append(@, w)]
  ELSE Append(uwc, [email |-> email, clients |-> <<w>>])

\* a removal that leaves the emptied sets in the map
RemoveNoPrune(uwc, w) ==
  [i \in 1..Len(uwc) |-> [uwc[i] EXCEPT !.clients = SelectSeq(@, LAMBDA c : c # w)]]

\* web client ws.on("close") (part_000 lines 274-281)
RemoveViewer(uwc, w) ==
  LET stripped == [i \in 1..Len(uwc) |->
                     [uwc[i] EXCEPT !.clients = SelectSeq(@, LAMBDA c : c # w)]]
  IN SelectSeq(stripped, LAMBDA e : e.clients # <<>>)

\* removeWebClientForUser (server.js lines 107-112)
removeWebClientForUser(uwc, email, w) ==
  IF ~UwcHas(uwc, email) THEN uwc
  ELSE LET i == CHOOSE j \in 1..Len(uwc) : uwc[j].email = email
           set == SelectSeq(uwc[i].clients, LAMBDA c : c # w)
       IN IF set = <<>>
          THEN SubSeq(uwc, 1, i - 1) \o SubSeq(uwc, i + 1, Len(uwc))
          ELSE [uwc EXCEPT ![i].clients = set]

CacheHas(cache, email) == \E i \in 1..Len(cache) : cache[i].email = email
CacheGet(cache, email) ==
  IF CacheHas(cache, email)
  THEN cache[CHOOSE i \in 1..Len(cache) : cache[i].email = email].device
  ELSE <<>>
CacheSet(cache, email, n) ==
  IF CacheHas(cache, email)
  THEN [cache EXCEPT ![CHOOSE i \in 1..Len(cache) : cache[i].email = email].device = n]
  ELSE Append(cache, [email |-> email, device |-> n])

(* What the get_user_device request can come back with.                    *)
LookupResponses(names) ==
  [kind : {"throw", "nothttpok", "notjson"}, success : {FALSE}, device_name : {<<>>}]
  \cup [kind : {"json"}, success : BOOLEAN, device_name : {<<>>} \cup names]

\* a lookup that takes a successful body without a device name for a device
LookupOkNoName(resp) == resp.kind = "json" /\ resp.success

\* data.success === true && data.device_name, after the checks of the
\* status and of the content type (part_000 lines 118-123)
LookupOk(resp) == resp.kind = "json" /\ resp.success /\ resp.device_name # <<>>

\* a forwarding that does not look at the readyState of the transport
ForwardUnchecked(m, n, bad) ==
  IF n # <<>> /\ RegHas(m.reg, n)
  THEN [Send(m, RegGet(m.reg, n), Directive("CMD"), bad) EXCEPT !.thrown = FALSE]
  ELSE m

\* part_000 lines 256-261: the command goes to the device of the email
ForwardCommand(m, n, bad) ==
  IF n # <<>> /\ RegHas(m.reg, n)
  THEN [SendIfOpen(m, RegGet(m.reg, n), Directive("CMD"), bad) EXCEPT !.thrown = FALSE]
  ELSE m

(* ------------------------------ actions ------------------------------- *)
\* the state after a callback that ended in the record m
Commit(m) ==
  /\ authenticatedClients' = m.reg
  /\ readyState' = m.rs
  /\ isAlive' = m.alive
  /\ heartbeatState' = m.hb
  /\ out' = m.out
  /\ falseCycles' = m.seen

\* the transports whose send or ping throws during one callback: none, or
\* one of those the callback can write to (none at all in a world whose
\* ws library never throws from send and ping)
Bads(S) == IF world.throws THEN {{}} \cup {{w} : w \in S} ELSE {{}}
Connected(S) == {w \in S : readyState[w] # "NONE"}
Registered == RegWS(authenticatedClients)

\* the header values of a world: those naming one of its devices, or nothing
HeadersOf(w) ==
  {h \in HeaderVals : HeaderToken(w.variant, h) \in w.names \cup {<<>>}}

Worlds ==
  [variant : Variants, nDev : 0..NumDev, names : SUBSET Names,
   nView : 0..NumView, users : SUBSET Users, throws : BOOLEAN]

InitIn(W) ==
  /\ world \in W
  /\ crashed = FALSE
  /\ readyState = [w \in WS |-> "NONE"]
  /\ pc = [w \in DevWS |-> "new"]
  /\ username = [w \in DevWS |-> <<>>]
  /\ deviceName = [w \in DevWS |-> <<>>]
  /\ isAlive = [w \in WS |-> "undef"]
  /\ authenticatedClients = <<>>
  /\ heartbeatState = EmptyMap
  /\ closeCode = [w \in DevWS |-> 0]
  /\ authCalls = [w \in DevWS |-> 0]
  /\ out = <<>>
  /\ falseCycles = [w \in WS |-> 0]
  /\ closedInAuth = {}
  /\ userWebClients = <<>>
  /\ userToWemosCache = <<>>
  /\ lookups = [u \in Users |-> 0]
  /\ lookupCalls = [u \in Users |-> 0]
  /\ lookupFailed = {}
  /\ authFailed = {}
  /\ missingHeader = {}
  /\ cmdFrom = ""

\* no callback is running
Idle == ~crashed /\ out = <<>> /\ cmdFrom = ""

\* The callback that wrote the frames of out returns.
Return ==
  /\ ~crashed /\ (out # <<>> \/ cmdFrom # "")
  /\ out' = <<>>
  /\ cmdFrom' = ""
  /\ UNCHANGED <<world, crashed, readyState, isAlive, authenticatedClients,
                 heartbeatState, falseCycles>>
  /\ UNCHANGED devVars
  /\ UNCHANGED webVars

\* A device connects with the headers hu, hp: wss.on("connection") up to
\* the fetch of the authentication (server.js: the upgrade request).
Connect(w, hu, hp) ==
  /\ Idle
  /\ w \in DevWS /\ w <= world.nDev /\ readyState[w] = "NONE"
  /\ \A x \in DevWS : x < w => readyState[x] # "NONE"
  /\ LET u == HeaderToken(variant, hu)
         p == HeaderToken(variant, hp)
     IN IF CredsPresent(u, p)
        THEN /\ pc' = [pc EXCEPT ![w] = "auth"]
             /\ username' = [username EXCEPT ![w] = u]
             /\ authCalls' = [authCalls EXCEPT ![w] = @ + 1]
             /\ readyState' = [readyState EXCEPT ![w] = "OPEN"]
             /\ UNCHANGED closeCode
        ELSE /\ pc' = [pc EXCEPT ![w] = "rejected"]
             /\ closeCode' = [closeCode EXCEPT ![w] = MissingCredsStatus(variant)]
             /\ readyState' = [readyState EXCEPT ![w] = "CLOSING"]
             /\ UNCHANGED <<username, authCalls>>
  /\ missingHeader' = IF hu.present /\ hp.present THEN missingHeader
                       ELSE missingHeader \cup {w}
  /\ UNCHANGED <<world, crashed, deviceName, isAlive, authenticatedClients,
                 heartbeatState, out, falseCycles, closedInAuth, authFailed>>
  /\ UNCHANGED <<webVars, cmdFrom>>

\* the backend did not report success: the request threw, the body was
\* not JSON, or its success flag was not set
BackendRefused(resp) == resp.kind # "json" \/ ~resp.success

\* The authentication of w comes back: rejection, or registration.
AuthResolve(w, resp, bad, crash) ==
  /\ Idle
  /\ w \in DevWS /\ pc[w] = "auth"
  /\ username' = [username EXCEPT ![w] = <<>>]
  /\ LET r == Authenticate(variant, resp, username[w])
     IN IF ~r.ok
        THEN /\ pc' = [pc EXCEPT ![w] = "rejected"]
             /\ closeCode' = [closeCode EXCEPT ![w] = RejectStatus(variant, r)]
             /\ Commit([Cur EXCEPT !.rs = CloseWS(@, w)])
             /\ bad = {} /\ ~crash
             /\ UNCHANGED <<crashed, deviceName>>
        ELSE IF variant = "server" /\ readyState[w] # "OPEN"
        THEN \* handleUpgrade on a socket that is gone: no callback
             /\ pc' = [pc EXCEPT ![w] = "dropped"]
             /\ Commit(Cur)
             /\ bad = {} /\ ~crash
             /\ UNCHANGED <<crashed, closeCode, deviceName>>
        ELSE LET m == Register(variant, Cur, w, r.deviceName, r.initialCommand, bad)
             IN /\ Commit([m EXCEPT !.thrown = FALSE])
                /\ pc' = [pc EXCEPT ![w] = IF m.thrown THEN "nohandlers" ELSE "serving"]
                /\ deviceName' = [deviceName EXCEPT ![w] = r.deviceName]
                \* an unhandled rejection ends the process or is only reported
                /\ crash => m.thrown
                /\ crashed' = crash
                /\ UNCHANGED closeCode
  /\ authFailed' = IF BackendRefused(resp) THEN authFailed \cup {w} ELSE authFailed
  /\ UNCHANGED <<world, authCalls, closedInAuth, missingHeader>>
  /\ UNCHANGED <<webVars, cmdFrom>>

\* The peer of an open transport goes away (close frame, reset, timeout).
Disconnect(w) ==
  /\ Idle
  /\ readyState[w] = "OPEN"
  /\ readyState' = [readyState EXCEPT ![w] = "CLOSING"]
  /\ closedInAuth' = IF w \in DevWS /\ pc[w] = "auth" THEN closedInAuth \cup {w} ELSE closedInAuth
  /\ UNCHANGED <<world, crashed, pc, username, deviceName, isAlive, authenticatedClients,
                 heartbeatState, closeCode, authCalls, out, falseCycles, authFailed,
                 missingHeader>>
  /\ UNCHANGED <<webVars, cmdFrom>>

\* The close event of a transport is emitted; its close handler runs if
\* one was attached.
CloseEvent(w, bad) ==
  /\ Idle
  /\ readyState[w] = "CLOSING"
  /\ LET m0 == [Cur EXCEPT !.rs[w] = "CLOSED"]
         m == IF w \in DevWS /\ pc[w] = "serving"
              THEN OnClose(variant, m0, w, deviceName[w], bad)
              ELSE m0
     IN /\ Commit([m EXCEPT !.thrown = FALSE])
        /\ crashed' = m.thrown
        /\ userWebClients' = IF w \in ViewWS THEN RemoveViewer(userWebClients, w)
                             ELSE userWebClients
  /\ UNCHANGED <<world, userToWemosCache, lookups, lookupCalls, lookupFailed, cmdFrom>>
  /\ UNCHANGED devVars

\* A pong frame arrives on a transport whose handlers are attached.
Pong(w) ==
  /\ Idle
  /\ w \in DevWS /\ pc[w] = "serving" /\ readyState[w] = "OPEN"
  /\ Commit(OnPong(variant, Cur, w, deviceName[w]))
  /\ UNCHANGED <<world, crashed>>
  /\ UNCHANGED devVars
  /\ UNCHANGED <<webVars, cmdFrom>>

\* One run of the heartbeat interval callback.
Heartbeat(bad) ==
  /\ Idle
  /\ authenticatedClients # <<>>
  /\ LET m == HeartbeatCycle(variant, Cur, authenticatedClients, bad)
     IN /\ Commit([m EXCEPT !.thrown = FALSE])
        /\ crashed' = m.thrown
  /\ UNCHANGED world
  /\ UNCHANGED devVars
  /\ UNCHANGED <<webVars, cmdFrom>>

\* One status poll (checkPhpBackend, checkAutoTrigger), from its response on.
Poll(resp, bad) ==
  /\ Idle
  /\ Commit(IF Triggered(variant, resp) THEN Broadcast(variant, Cur, bad) ELSE Cur)
  /\ UNCHANGED <<world, crashed>>
  /\ UNCHANGED devVars
  /\ UNCHANGED <<webVars, cmdFrom>>

\* A web client connects (part_000, path /webclient).
ViewerConnect(w) ==
  /\ Idle /\ variant = "part_000"
  /\ w \in ViewWS /\ w <= NumDev + world.nView /\ readyState[w] = "NONE"
  /\ \A x \in ViewWS : x < w => readyState[x] # "NONE"
  /\ readyState' = [readyState EXCEPT ![w] = "OPEN"]
  /\ UNCHANGED <<world, crashed, isAlive, authenticatedClients, heartbeatState,
                 out, falseCycles>>
  /\ UNCHANGED devVars
  /\ UNCHANGED <<webVars, cmdFrom>>

\* {type: "register", email}
ViewerRegister(w, email) ==
  /\ Idle /\ variant = "part_000"
  /\ w \in ViewWS /\ readyState[w] = "OPEN"
  /\ userWebClients' = addWebClientForUser(userWebClients, email, w)
  /\ UNCHANGED <<world, crashed, readyState, isAlive, authenticatedClients,
                 heartbeatState, out, falseCycles>>
  /\ UNCHANGED <<userToWemosCache, lookups, lookupCalls, lookupFailed, cmdFrom>>
  /\ UNCHANGED devVars

\* {type: "command", email, command}: answered from the cache at once,
\* or suspended on the get_user_device request.
ViewerCommand(w, email, bad) ==
  /\ Idle /\ variant = "part_000"
  /\ w \in ViewWS /\ readyState[w] = "OPEN"
  /\ IF CacheHas(userToWemosCache, email)
     THEN /\ Commit(ForwardCommand(Cur, CacheGet(userToWemosCache, email), bad))
          /\ cmdFrom' = email
          /\ UNCHANGED <<lookups, lookupCalls>>
     ELSE /\ lookupCalls[email] < MaxLookups
          /\ bad = {}
          /\ cmdFrom' = ""
          /\ lookups' = [lookups EXCEPT ![email] = @ + 1]
          /\ lookupCalls' = [lookupCalls EXCEPT ![email] = @ + 1]
          /\ Commit(Cur)
  /\ UNCHANGED <<world, crashed, userWebClients, userToWemosCache, lookupFailed>>
  /\ UNCHANGED devVars

\* A get_user_device request comes back and the command handler goes on.
LookupResolve(email, resp, bad) ==
  /\ Idle /\ variant = "part_000"
  /\ lookups[email] > 0
  /\ lookups' = [lookups EXCEPT ![email] = @ - 1]
  /\ cmdFrom' = email
  /\ IF LookupOk(resp)
     THEN /\ userToWemosCache' = CacheSet(userToWemosCache, email, resp.device_name)
          /\ Commit(ForwardCommand(Cur, resp.device_name, bad))
          /\ UNCHANGED lookupFailed
     ELSE /\ lookupFailed' = lookupFailed \cup {email}
          /\ bad = {}
          /\ Commit(Cur)
          /\ UNCHANGED userToWemosCache
  /\ UNCHANGED <<world, crashed, userWebClients, lookupCalls>>
  /\ UNCHANGED devVars

(* The callbacks of a device-only run.                                     *)
NextDev ==
  \/ Return
  \/ \E w \in DevWS, hu \in HeadersOf(world), hp \in HeadersOf(world) : Connect(w, hu, hp)
  \/ \E w \in DevWS, resp \in AuthResponses(world.names), crash \in BOOLEAN :
       \E bad \in Bads({w} \cup Connected(ViewWS)) : AuthResolve(w, resp, bad, crash)
  \/ \E w \in WS : Disconnect(w)
  \/ \E w \in WS, bad \in Bads(Connected(ViewWS)) : CloseEvent(w, bad)
  \/ \E w \in DevWS : Pong(w)
  \/ \E bad \in Bads(Registered \cup Connected(ViewWS)) : Heartbeat(bad)
  \/ \E resp \in PollResponses, bad \in Bads(Registered \cup Connected(ViewWS)) : Poll(resp, bad)

(* The callbacks of the web clients of part_000.                           *)
NextWeb ==
  \/ \E w \in ViewWS : ViewerConnect(w)
  \/ \E w \in ViewWS, email \in world.users : ViewerRegister(w, email)
  \/ \E w \in ViewWS, email \in world.users, bad \in Bads(Registered) :
       ViewerCommand(w, email, bad)
  \/ \E email \in world.users, resp \in LookupResponses(world.names), bad \in Bads(Registered) :
       LookupResolve(email, resp, bad)

Next == NextDev \/ NextWeb

(* --------------------------- specifications --------------------------- *)
World(v, nd, nms, nv, us, t) ==
  [variant |-> v, nDev |-> nd, names |-> nms, nView |-> nv, users |-> us, throws |-> t]

(* The device side of the three programs: two connections, two device     *)
(* names, a ws library whose send and ping may throw.                      *)
Init == InitIn({World(v, MaxDevWide, Names, 0, {}, TRUE) : v \in Variants})
Spec == Init /\ [][NextDev]_vars

(* Reconnection races: three connections of one device, no status poll, a *)
(* ws library that never throws.                                           *)
NextRace ==
  \/ Return
  \/ \E w \in DevWS, hu \in HeadersOf(world), hp \in HeadersOf(world) : Connect(w, hu, hp)
  \/ \E w \in DevWS, resp \in AuthResponses(world.names), crash \in BOOLEAN :
       \E bad \in Bads({w} \cup Connected(ViewWS)) : AuthResolve(w, resp, bad, crash)
  \/ \E w \in WS : Disconnect(w)
  \/ \E w \in WS, bad \in Bads(Connected(ViewWS)) : CloseEvent(w, bad)
  \/ \E w \in DevWS : Pong(w)
  \/ \E bad \in Bads(Registered \cup Connected(ViewWS)) : Heartbeat(bad)
InitRace == InitIn({World(v, MaxDev, {NameA}, 0, {}, FALSE) : v \in Variants})
SpecRace == InitRace /\ [][NextRace]_vars

(* part_000 with a web client; part_002 beside it.                         *)
InitWeb ==
  InitIn({World("part_000", 1, Names, MaxView, {"u1"}, TRUE),
          World("part_000", MaxDevWide, {NameA}, MaxView, {"u1"}, FALSE),
          World("part_002", MaxDevWide, Names, 0, {}, TRUE)})
SpecWeb == InitWeb /\ [][Next]_vars

(* part_000 with one device and two web clients of one user.               *)
InitFan == InitIn({World("part_000", 1, {NameA}, MaxViewWide, {"u1"}, TRUE)})
SpecFan == InitFan /\ [][Next]_vars

(* The web clients of part_000 alone: two web clients, two users, no       *)
(* device connection.                                                      *)
NextView ==
  \/ Return
  \/ \E w \in ViewWS : Disconnect(w)
  \/ \E w \in ViewWS : CloseEvent(w, {})
  \/ NextWeb
InitView == InitIn({World("part_000", 0, {NameA}, MaxViewWide, Users, FALSE)})
SpecView == InitView /\ [][NextView]_vars

(* One device connection under a fair scheduler: a callback returns, and  *)
(* the event loop, whenever it is idle again and again, runs the heartbeat *)
(* interval and delivers an emitted close event.                           *)
InitLive == InitIn({World(v, 1, {NameA}, 0, {}, FALSE) : v \in Variants})
Fairness ==
  /\ WF_vars(Return)
  /\ SF_vars(Heartbeat({}))
  /\ \A w \in DevWS : SF_vars(CloseEvent(w, {}))
SpecLive == InitLive /\ [][NextRace]_vars /\ Fairness

(* ------------------------------- claims ------------------------------- *)
\* a transport on which the registration ran (map.set was executed)
RegisteredEver(w) == pc[w] \in {"serving", "nohandlers"}
OpenUnder(n) == {w \in DevWS : RegisteredEver(w) /\ deviceName[w] = n /\ readyState[w] = "OPEN"}
Entries == {authenticatedClients[i] : i \in 1..Len(authenticatedClients)}

\* C1: for every device identity, at most one transport that completed
\* registration under it is open, in every reachable state.
C1_AtMostOneOpenPerDevice == \A n \in Names : Cardinality(OpenUnder(n)) <= 1

\* C2: when the close handler of a transport W registered under D runs and
\* the registry holds a newer transport for D, the entry of D stays.
C2_StaleCloseKeepsNewer ==
  [][\A w \in DevWS :
       (/\ pc[w] = "serving"
        /\ readyState[w] = "CLOSING" /\ readyState'[w] = "CLOSED"
        /\ RegHas(authenticatedClients, deviceName[w])
        /\ RegGet(authenticatedClients, deviceName[w]) # w)
       => RegGet(authenticatedClients', deviceName[w])
            = RegGet(authenticatedClients, deviceName[w])]_vars

\* the heartbeat of part_002 removed the entry e in this step: the entry is
\* gone and no close event ran
RemovedByHeartbeat(e) ==
  /\ e \in Entries
  /\ ~RegHas(authenticatedClients', e.name)
  /\ \A w \in WS : ~(readyState[w] = "CLOSING" /\ readyState'[w] = "CLOSED")

\* C3: in part_002 a registered session that never acknowledges is removed
\* at exactly the third consecutive cycle that finds its flag false: it is
\* registered after at most two such cycles, and removed by no earlier one.
C3_TerminatedAtThirdMiss ==
  /\ [](variant = "part_002" => \A e \in Entries : falseCycles[e.ws] <= 2)
  /\ [][variant = "part_002" =>
          \A e \in Entries : RemovedByHeartbeat(e) => falseCycles'[e.ws] = 3]_vars

\* C7: a transport that closed while its authentication was in flight is
\* not in the registry after the authentication has resolved.
C7_ClosedInAuthNotRegistered == \A e \in Entries : e.ws \notin closedInAuth

\* the registration of w ran in this step
RegistersNow(w) == pc[w] = "auth" /\ RegisteredEver(w)'

\* C4: in part_002 a pong on a session sets its flag to true and the missed
\* count of its device to 0, whatever they were, and a registration under
\* D sets the missed count of D to 0.
C4_PongAndRegisterReset ==
  [][variant = "part_002" =>
       /\ \A w \in DevWS :
            Pong(w) => /\ isAlive'[w] = "true"
                       /\ deviceName[w] \in DOMAIN heartbeatState'
                       /\ heartbeatState'[deviceName[w]] = 0
       /\ \A w \in DevWS :
            RegistersNow(w) => Missed(heartbeatState', deviceName'[w]) = 0]_vars

AttemptsTo(w) == {i \in 1..Len(out) : out[i].to = w}

\* C5: in part_000 and part_002 a connection whose authentication fails is
\* closed with 1008, is never in the registry, is never written to, and
\* its rejection changes neither the registry nor announces anything.
C5_RejectedStaysOut ==
  /\ [](variant # "server" =>
          \A w \in authFailed :
            /\ pc[w] = "rejected" /\ closeCode[w] = 1008
            /\ readyState[w] # "OPEN"
            /\ w \notin Registered
            /\ AttemptsTo(w) = {})
  /\ [](\A w \in DevWS : pc[w] \in {"new", "auth"} => w \notin Registered /\ AttemptsTo(w) = {})
  /\ [][variant # "server" =>
          \A w \in DevWS :
            (w \notin authFailed /\ w \in authFailed') =>
              /\ authenticatedClients' = authenticatedClients
              /\ heartbeatState' = heartbeatState
              /\ out' = <<>>]_vars

C5_Witness ==
  /\ variant = "part_000"
  /\ userWebClients # <<>>
  /\ \E w \in authFailed : closeCode[w] = 1008 /\ readyState[w] = "CLOSED"
  /\ \E w \in Registered : readyState[w] = "OPEN"

\* C6 as stated: a connection without x-username (or without x-password)
\* is closed with the unauthorized code (1008, or 401 before the upgrade)
\* and no wemos_auth request is issued for it.
C6_MissingHeaderUnauthorized ==
  \A w \in missingHeader : authCalls[w] = 0 /\ closeCode[w] \in {1008, 401}

\* C6 as amended: such a connection is refused without any wemos_auth
\* request: closed with 1008 in part_000 and part_002, answered 400 with
\* the socket destroyed in server.js; it never reaches the registry.
C6_MissingHeaderRefused ==
  \A w \in missingHeader :
    /\ authCalls[w] = 0
    /\ pc[w] = "rejected"
    /\ closeCode[w] = (IF variant = "server" THEN 400 ELSE 1008)
    /\ readyState[w] \in {"CLOSING", "CLOSED"}
    /\ w \notin Registered

C6_Witness ==
  \E w \in missingHeader, x \in DevWS : readyState[w] = "CLOSED" /\ authCalls[x] = 1

\* C8: when a send of the trigger broadcast throws on one device
\* transport, every other open transport of the registry is still sent
\* AUTO_ON in that broadcast.
C8_BroadcastIsolated ==
  (\E i \in 1..Len(out) : out[i].frame = Directive("AUTO_ON") /\ out[i].res = "threw")
  => \A e \in Entries :
       (readyState[e.ws] = "OPEN" /\ Attempt(e.ws, Directive("AUTO_ON"), "threw") \notin
            {out[i] : i \in 1..Len(out)})
       => Attempt(e.ws, Directive("AUTO_ON"), "ok") \in {out[i] : i \in 1..Len(out)}

\* C9: a command of a web client is written to a transport only in the
\* callback of that command, only to the transport the registry holds for
\* the device the cache maps the command's email to, and only if it is open.
C9_CommandOnlyToLiveDevice ==
  \A i \in 1..Len(out) :
    out[i].frame = Directive("CMD") =>
      /\ cmdFrom \in Users
      /\ CacheHas(userToWemosCache, cmdFrom)
      /\ RegHas(authenticatedClients, CacheGet(userToWemosCache, cmdFrom))
      /\ out[i].to = RegGet(authenticatedClients, CacheGet(userToWemosCache, cmdFrom))
      /\ readyState[out[i].to] = "OPEN"
      /\ out[i].res # "dropped"

C9_Witness ==
  /\ \E i \in 1..Len(out) : out[i].frame = Directive("CMD") /\ out[i].res = "ok"
  /\ \E w \in DevWS : readyState[w] = "CLOSED" /\ pc[w] = "serving"

\* C10: a user whose lookups have all come back and all succeeded has cost
\* one get_user_device request, issued by the first resolve, however the
\* resolves interleave.
C10_OneLookupPerUser ==
  \A u \in Users :
    (u \notin lookupFailed /\ lookups[u] = 0) => lookupCalls[u] <= 1

\* a get_user_device response that is a failure: network error, status not
\* ok, body not JSON, success flag not true, or no device name
LookupFails(resp) ==
  resp.kind # "json" \/ ~resp.success \/ resp.device_name = <<>>

\* C11: a resolve whose lookup fails forwards nothing and leaves the
\* identity cache as it was, and a command of a user the cache does not
\* hold issues a get_user_device request.
C11_FailedLookupNotCached ==
  [][/\ \A email \in Users, resp \in LookupResponses(Names) :
          (LookupFails(resp) /\ LookupResolve(email, resp, {})) =>
             /\ userToWemosCache' = userToWemosCache
             /\ out' = <<>>
     /\ \A w \in ViewWS, email \in Users :
          (~CacheHas(userToWemosCache, email) /\ ViewerCommand(w, email, {})) =>
             lookupCalls'[email] = lookupCalls[email] + 1]_vars

C11_Witness ==
  \E u \in lookupFailed :
    /\ ~CacheHas(userToWemosCache, u)
    /\ lookupCalls[u] = 2 /\ lookups[u] = 1

\* the open web clients registered under an email the cache maps to n
OpenViewersOf(n) ==
  {v \in ViewWS :
     /\ readyState[v] = "OPEN"
     /\ \E i \in 1..Len(userWebClients) :
          /\ CacheGet(userToWemosCache, userWebClients[i].email) = n
          /\ \E k \in 1..Len(userWebClients[i].clients) :
               userWebClients[i].clients[k] = v}

\* the close event of w is emitted in this step
ClosesNow(w) == readyState[w] = "CLOSING" /\ readyState'[w] = "CLOSED"

\* C12: in part_000, when the transport the registry holds for D closes,
\* D leaves the registry and the disconnected status of D is written to
\* every open web client of an email that maps to D.
C12_DisconnectNotifiesViewers ==
  [][variant = "part_000" =>
       \A w \in DevWS :
         (ClosesNow(w) /\ RegGet(authenticatedClients, deviceName[w]) = w) =>
            /\ ~RegHas(authenticatedClients', deviceName[w])
            /\ \A v \in OpenViewersOf(deviceName[w]) :
                 \E i \in 1..Len(out') :
                   /\ out'[i].to = v
                   /\ out'[i].frame = DeviceStatus(deviceName[w], "disconnected")]_vars

\* a wemos_auth request that failed in transport or in parsing
TransportOrParseFailure(resp) == resp.kind \in {"throw", "nonjson"}

\* C13: in part_000 and part_002 a connection is rejected for a transport
\* or parse failure of the wemos_auth request only when three requests
\* have been issued for it.
C13_RejectedAfterThreeAttempts ==
  [][variant # "server" =>
       \A w \in DevWS, resp \in AuthResponses(Names) :
         (TransportOrParseFailure(resp) /\ AuthResolve(w, resp, {}, FALSE)) =>
            (pc'[w] = "rejected" => authCalls'[w] = 3)]_vars

\* the emails whose set holds the web client v
SetsOf(uwc, v) ==
  {uwc[i].email : i \in {j \in 1..Len(uwc) :
                           \E k \in 1..Len(uwc[j].clients) : uwc[j].clients[k] = v}}
NoEmptySet(uwc) == \A i \in 1..Len(uwc) : uwc[i].clients # <<>>

\* C14: a web client is in the set of at most one email.
C14_ViewerInOneSet ==
  \A v \in ViewWS : Cardinality(SetsOf(userWebClients, v)) <= 1

\* C15: no email is mapped to an empty set, a web client whose close
\* handler ran is in no set, and removing a web client again, or one that
\* is in no set, changes nothing (close handler of part_000 and
\* removeWebClientForUser of server.js alike).
C15_RemovalIdempotentAndPrunes ==
  /\ NoEmptySet(userWebClients)
  /\ \A v \in ViewWS :
       /\ readyState[v] = "CLOSED" => SetsOf(userWebClients, v) = {}
       /\ LET once == RemoveViewer(userWebClients, v)
          IN /\ SetsOf(once, v) = {} /\ NoEmptySet(once)
             /\ RemoveViewer(once, v) = once
             /\ SetsOf(userWebClients, v) = {} => once = userWebClients
       /\ \A e \in Users :
            LET once == removeWebClientForUser(userWebClients, e, v)
            IN /\ e \notin SetsOf(once, v) /\ NoEmptySet(once)
               /\ removeWebClientForUser(once, e, v) = once
               /\ e \notin SetsOf(userWebClients, v) => once = userWebClients

C15_Witness ==
  \E v \in ViewWS, w \in ViewWS :
    /\ readyState[v] = "CLOSED" /\ readyState[w] = "OPEN"
    /\ SetsOf(userWebClients, w) = Users

\* the sets of transports whose send can throw during one callback
ThrowSets == {{}} \cup {{w} : w \in WS}

\* C16: in part_000, a heartbeat cycle that finds the flag of a registered
\* session false writes TRY_AGAIN to its transport while it is still open
\* (before terminate) and writes the disconnected status of its device to
\* every open web client of an email that maps to the device.
C16_TryAgainBeforeTerminate ==
  [][variant = "part_000" =>
       \A bad \in ThrowSets :
         Heartbeat(bad) =>
           \A e \in Entries :
             isAlive[e.ws] = "false" =>
               /\ \E i \in 1..Len(out') :
                    /\ out'[i].to = e.ws
                    /\ out'[i].frame = Directive("TRY_AGAIN")
                    /\ (readyState[e.ws] = "OPEN" /\ e.ws \notin bad) => out'[i].res = "ok"
               /\ \A v \in OpenViewersOf(e.name) :
                    \E i \in 1..Len(out') :
                      /\ out'[i].to = v
                      /\ out'[i].frame = DeviceStatus(e.name, "disconnected")]_vars

\* the web clients that are open and in the set of some email
OpenRegisteredViewers ==
  {v \in ViewWS : readyState[v] = "OPEN" /\ SetsOf(userWebClients, v) # {}}

\* C17: a status poll that comes back ok with success true writes AUTO_ON
\* to every open transport of the registry and to no transport outside
\* it, and in part_000 writes the auto_trigger notification to every open
\* web client of the viewer sets.
C17_TriggerReachesAllDevices ==
  [][\A resp \in PollResponses, bad \in ThrowSets :
       (resp.kind = "json" /\ resp.success /\ resp.httpOk /\ Poll(resp, bad)) =>
          /\ \A e \in Entries :
               readyState[e.ws] = "OPEN" =>
                 \E i \in 1..Len(out') :
                   out'[i].to = e.ws /\ out'[i].frame = Directive("AUTO_ON")
          /\ \A i \in 1..Len(out') :
               out'[i].frame = Directive("AUTO_ON") => out'[i].to \in Registered
          /\ variant = "part_000" =>
               \A v \in OpenRegisteredViewers :
                 \E i \in 1..Len(out') : out'[i].to = v /\ out'[i].frame = AutoTrigger]_vars

\* a status poll that is unreachable, is not JSON, or whose success is not true
PollFails(resp) == resp.kind # "json" \/ ~resp.success

\* C18: in part_000 and part_002 a failed status poll writes to no
\* transport, ends without an exception and changes neither the registry
\* nor the viewer sets nor the identity cache nor any transport.
C18_FailedPollDoesNothing ==
  [][variant # "server" =>
       \A resp \in {r \in PollResponses : PollFails(r)} :
         Poll(resp, {}) =>
            /\ out' = <<>>
            /\ crashed' = FALSE
            /\ UNCHANGED <<authenticatedClients, heartbeatState, userWebClients,
                           userToWemosCache, readyState, isAlive>>]_vars

C18_Witness ==
  /\ variant = "part_000" /\ Idle
  /\ \E e \in Entries : readyState[e.ws] = "OPEN"
  /\ OpenRegisteredViewers # {}
  /\ userToWemosCache # <<>>

\* the indices of out' whose attempt goes to w
AttemptsNextTo(w) == {i \in 1..Len(out') : out'[i].to = w}
AcceptedResponses == {r \in AuthResponses(Names) : r.kind = "json" /\ r.success /\ r.httpOk}

\* no frame is written to a transport whose registration has not run
SilentBeforeRegistration ==
  \A w \in DevWS : ~RegisteredEver(w) => AttemptsTo(w) = {}

\* the registration of w writes one frame to w, a directive of the set
\* {on, off}, the one named on when the backend flag is true, and no
\* directive of the set is written to a transport after its registration
InitialDirectiveIs(w, on, off) ==
  /\ RegistersNow(w) =>
       /\ Cardinality(AttemptsNextTo(w)) = 1
       /\ \A i \in AttemptsNextTo(w) : out'[i].frame \in {Directive(on), Directive(off)}
  /\ \A resp \in AcceptedResponses :
       AuthResolve(w, resp, {}, FALSE) =>
         \A i \in AttemptsNextTo(w) :
           out'[i].frame = Directive(IF resp.hard THEN on ELSE off)
  /\ RegisteredEver(w) =>
       \A i \in AttemptsNextTo(w) :
         out'[i].frame \notin {Directive(on), Directive(off)}

\* C19 as stated: the initial directive is PRIMARY_ON or PRIMARY_OFF.
C19_InitialDirectivePrimary ==
  /\ []SilentBeforeRegistration
  /\ [][\A w \in DevWS : InitialDirectiveIs(w, "PRIMARY_ON", "PRIMARY_OFF")]_vars

\* C19 as amended: the initial directive is HARD_ON when the flag
\* hard_switch_enabled is true and HARD_OFF when it is not; it is written
\* once, by the registration, before any other frame of the transport.
C19_InitialDirectiveHard ==
  /\ []SilentBeforeRegistration
  /\ [][\A w \in DevWS : InitialDirectiveIs(w, "HARD_ON", "HARD_OFF")]_vars

C19_Witness ==
  \E w \in DevWS :
    /\ pc[w] = "serving"
    /\ \E i \in AttemptsTo(w) : out[i] = Attempt(w, Directive("HARD_ON"), "ok")

\* C20: when the registration of w under D has run, the registry holds w
\* for D and every other transport registered under D before it is no
\* longer open.
C20_LastRegistrationWins ==
  [][\A w \in DevWS :
       RegistersNow(w) =>
         /\ RegGet(authenticatedClients', deviceName'[w]) = w
         /\ \A x \in DevWS \ {w} :
              (RegisteredEver(x) /\ deviceName[x] = deviceName'[w]) =>
                 readyState'[x] # "OPEN"]_vars

\* w is in the registry and its transport is closing or closed
DeadEntry(w) == w \in Registered /\ readyState[w] \in {"CLOSING", "CLOSED"}

\* C21: under fair heartbeat cycles and close events, a registry entry
\* whose transport is closing or closed is eventually removed.
C21_DeadEntriesRemoved ==
  \A w \in DevWS : DeadEntry(w) ~> (w \notin Registered)

C23_MissedCountsMatchRegistry ==
  (variant = "part_002" /\ Idle) =>
     DOMAIN heartbeatState = {e.name : e \in Entries}

\* C24: in part_000 a callback that returns normally and has written the
\* disconnected status of D to a web client leaves no open transport that
\* completed registration under D; so the status last written for D is
\* connected whenever D has an open registered session between callbacks.
C24_LastStatusAgreesWithRegistry ==
  [][(variant = "part_000" /\ ~crashed') =>
       \A n \in Names :
         (\E i \in 1..Len(out') : out'[i].frame = DeviceStatus(n, "disconnected")) =>
            {w \in DevWS : RegisteredEver(w)' /\ deviceName'[w] = n
                           /\ readyState'[w] = "OPEN"} = {}]_vars

\* C25: an entry of the user -> device cache, once stored, stays in the
\* cache with the device name it was stored with, whatever a later
\* get_user_device request answers.
C25_CacheEntryNeverChanges ==
  [][\A u \in Users :
       CacheHas(userToWemosCache, u) =>
         /\ CacheHas(userToWemosCache', u)
         /\ CacheGet(userToWemosCache', u) = CacheGet(userToWemosCache, u)]_vars
====
